---- MODULE Spec2Model ----
(***************************************************************************)
(* Workflow-graph agents of getting-started-langgraph.                     *)
(*                                                                         *)
(* The three example graphs (basic, conditional, llm), their state         *)
(* schemas, node functions and router are translated from src/src/agents.  *)
(* The graph engine they run on (compile, the executor loop, the reducers, *)
(* the run-time errors) is not part of the sources; it is modelled from    *)
(* sections 3, 4 and 7 of the specification.  Two further graphs, the      *)
(* routing scenario and the cycle scenario of section 8, exercise the      *)
(* engine's error paths, which none of the example graphs reaches.         *)
(*                                                                         *)
(* A Python string is a sequence of one-character (or one-token) strings,  *)
(* so that lower(), substring tests and f-string concatenation are         *)
(* computed, not assumed.                                                  *)
(***************************************************************************)
EXTENDS Integers, Sequences, FiniteSets, TLC

VARIABLES
    api_key,     \* whether OPENAI_API_KEY is set in the process environment
    pc,          \* "idle", "running", "done" or the name of the error that ended the run
    entry,       \* the function that started the run
    graphName,   \* the graph being run
    current,     \* executor position: the start marker or the last node invoked
    state,       \* the accumulated State of the run
    initial,     \* the caller-supplied initial State
    visited,     \* names of the nodes invoked so far, in order
    updates,     \* the partial updates those invocations returned, in order
    stepLimit,   \* <<>> when the caller gave no step limit, <<N>> otherwise
    errNode,     \* node named by the error that ended the run
    errLabel,    \* label named by a RoutingError
    modelCalls,  \* outcomes of the llm.invoke calls made so far, in order
    loop,        \* run_conversation: "off", "returned", "prompt", "invoking" or "ended"
    conversation_model,    \* run_conversation: its model_name argument
    conversation_history,  \* run_conversation: the list of that name
    inputs,      \* run_conversation: the lines read from the user so far, in order
    phase,       \* visualize_graphs: "off", "all", "loop", "single" or "done"
    args,        \* visualize_graphs: the parsed command line
    pending,     \* visualize_graphs: the agents still to be visualized, in order
    dirs,        \* directories that exist
    created,     \* directories this process created, in order
    files,       \* paths of the files this process wrote, in order
    printed      \* agents whose diagram was printed, in order

vars == <<api_key, pc, entry, graphName, current, state, initial, visited,
          updates, stepLimit, errNode, errLabel, modelCalls,
          loop, conversation_model, conversation_history, inputs,
          phase, args, pending, dirs, created, files, printed>>

\* The variables of run_conversation
conversation == <<loop, conversation_model, conversation_history, inputs>>

\* The variables of the visualize_graphs command
cli == <<phase, args, pending, dirs, created, files, printed>>

----------------------------------------------------------------------------
(* Bounds of the model *)

MaxLen == 3          \* longest user message of the conditional agent, in characters
MaxInitStep == 2     \* largest step_count a direct caller of the basic graph supplies
MaxHistory == 2      \* longest messages list a direct caller of the llm graph supplies
MaxStepLimit == 3    \* largest step limit given to a run of the cycle scenario
MaxInputs == 3       \* most lines read from the user in one run_conversation

----------------------------------------------------------------------------
(* State schemas: a State of each of the three TypedDict classes, with its  *)
(* fields in declaration order.                                             *)

\* basic_agent.py, class AgentState
AgentState(messages, user_name, step_count) ==
    ("messages" :> messages @@ "user_name" :> user_name @@ "step_count" :> step_count)

\* conditional_agent.py, class ConditionalState
ConditionalState(message, message_type, response, processed) ==
    ("message" :> message
     @@ "message_type" :> message_type
     @@ "response" :> response
     @@ "processed" :> processed)

\* llm_agent.py, class ChatState
ChatState(messages, model_name) ==
    ("messages" :> messages @@ "model_name" :> model_name)

----------------------------------------------------------------------------
(* Strings *)

\* Characters user messages are drawn from.  A Hangul syllable is written as
\* its romanisation: "hae" "jwo" are the two syllables of the first command
\* keyword.  "H" is the upper-case form of "h"; "x" occurs in no keyword.
Alphabet == {"h", "i", "H", "?", "hae", "jwo", "x"}

\* str.lower() on one character
LowerChar(c) ==
    CASE c = "H" -> "h"
      [] c = "I" -> "i"
      [] c = "E" -> "e"
      [] c = "L" -> "l"
      [] c = "O" -> "o"
      [] c = "Q" -> "q"
      [] OTHER -> c

\* str.lower()
Lower(s) == [i \in 1..Len(s) |-> LowerChar(s[i])]

\* kw in s
Contains(s, kw) ==
    \E i \in 1..(Len(s) - Len(kw) + 1) : SubSeq(s, i, i + Len(kw) - 1) = kw

\* dict.get(key, default)
Get(d, key, default) == IF key \in DOMAIN d THEN d[key] ELSE default

RECURSIVE SeqsUpTo(_, _)
SeqsUpTo(S, n) ==
    IF n = 0 THEN {<<>>}
    ELSE LET shorter == SeqsUpTo(S, n - 1)
         IN  shorter \cup {Append(s, x) : s \in {t \in shorter : Len(t) = n - 1}, x \in S}

----------------------------------------------------------------------------
(* Graph definitions: the registration calls of the three create_*_agent   *)
(* functions.  nodes holds the add_node calls (name, function) and edges   *)
(* the add_edge calls (source, target), in order; cond holds the           *)
(* add_conditional_edges calls.                                            *)

START == "__start__"
END == "__end__"

BasicGraphSwapped ==
    [nodes |-> << <<"greet", "greet_user">>, <<"process", "process_input">>,
                  <<"summarize", "summarize">> >>,
     edges |-> << <<START, "greet">>, <<"greet", "summarize">>,
                  <<"summarize", "process">>, <<"process", END>> >>,
     cond  |-> <<>>]

BasicGraphDangling ==
    [nodes |-> << <<"greet", "greet_user">>, <<"process", "process_input">>,
                  <<"summarize", "summarize">> >>,
     edges |-> << <<START, "greet">>, <<"greet", "process">>,
                  <<"process", "summarise">>, <<"summarize", END>> >>,
     cond  |-> <<>>]

BasicGraph ==
    [nodes |-> << <<"greet", "greet_user">>, <<"process", "process_input">>,
                  <<"summarize", "summarize">> >>,
     edges |-> << <<START, "greet">>, <<"greet", "process">>,
                  <<"process", "summarize">>, <<"summarize", END>> >>,
     cond  |-> <<>>]

ConditionalGraphLoop ==
    [nodes |-> << <<"classify", "classify_message">>, <<"greeting", "handle_greeting">>,
                  <<"question", "handle_question">>, <<"command", "handle_command">>,
                  <<"unknown", "handle_unknown">> >>,
     edges |-> << <<START, "classify">>, <<"greeting", END>>, <<"question", END>>,
                  <<"command", "classify">>, <<"unknown", END>> >>,
     cond  |-> << [src     |-> "classify",
                   router  |-> "route_message",
                   mapping |-> [greeting |-> "greeting", question |-> "question",
                                command |-> "command", unknown |-> "unknown"]] >>]

ConditionalGraph ==
    [nodes |-> << <<"classify", "classify_message">>, <<"greeting", "handle_greeting">>,
                  <<"question", "handle_question">>, <<"command", "handle_command">>,
                  <<"unknown", "handle_unknown">> >>,
     edges |-> << <<START, "classify">>, <<"greeting", END>>, <<"question", END>>,
                  <<"command", END>>, <<"unknown", END>> >>,
     cond  |-> << [src     |-> "classify",
                   router  |-> "route_message",
                   mapping |-> [greeting |-> "greeting", question |-> "question",
                                command |-> "command", unknown |-> "unknown"]] >>]

LlmGraph ==
    [nodes |-> << <<"llm", "call_llm">> >>,
     edges |-> << <<START, "llm">>, <<"llm", END>> >>,
     cond  |-> <<>>]

\* Section 8: a classifier sets label; a conditional edge maps "x" and "y" only.
RoutingScenarioGraph ==
    [nodes |-> << <<"classifier", "classifier">>, <<"nodeX", "may_fail">>,
                  <<"nodeY", "may_fail">> >>,
     edges |-> << <<START, "classifier">>, <<"nodeX", END>>, <<"nodeY", END>> >>,
     cond  |-> << [src     |-> "classifier",
                   router  |-> "route_label",
                   mapping |-> [x |-> "nodeX", y |-> "nodeY"]] >>]

\* Section 8: a cycle with no path to the terminal marker.
CycleScenarioGraph ==
    [nodes |-> << <<"ping", "count_step">>, <<"pong", "count_step">> >>,
     edges |-> << <<START, "ping">>, <<"ping", "pong">>, <<"pong", "ping">> >>,
     cond  |-> <<>>]

RepoGraphs == {"basic", "conditional", "llm"}
ScenarioGraphs == {"routing", "cycle"}

GraphOf(g) ==
    CASE g = "basic" -> BasicGraph
      [] g = "conditional" -> ConditionalGraph
      [] g = "llm" -> LlmGraph
      [] g = "routing" -> RoutingScenarioGraph
      [] g = "cycle" -> CycleScenarioGraph

----------------------------------------------------------------------------
(* State schemas: the reducer each TypedDict declares for a field.  A      *)
(* field without an Annotated reducer takes the default, overwrite.        *)

\* class AgentState: messages: list, user_name: str, step_count: int
AgentStateReducer(field) == "overwrite"

\* class ConditionalState: four plain fields
ConditionalStateReducer(field) == "overwrite"

AllOverwrite(field) == "overwrite"

\* class ChatState: messages: Annotated[list, add_messages], model_name: str
ChatStateReducer(field) == IF field = "messages" THEN "append" ELSE "overwrite"

\* Scenario schemas: plain fields only.
ScenarioReducer(field) == "overwrite"

ReducerOf(g, field) ==
    CASE g = "basic" -> AgentStateReducer(field)
      [] g = "conditional" -> ConditionalStateReducer(field)
      [] g = "llm" -> ChatStateReducer(field)
      [] OTHER -> ScenarioReducer(field)

----------------------------------------------------------------------------
(* Node results.  A node invocation either returns a partial update or     *)
(* raises.                                                                 *)

Returns(u) == [raised |-> FALSE, update |-> u]
Raises == [raised |-> TRUE]

----------------------------------------------------------------------------
(* basic_agent.py *)

UserNames == {"tester", "hong"}
UserInputs == {<<"in1">>, <<"in2", "!">>}

AssistantMessage(text) == ("role" :> "assistant" @@ "content" :> text)
UserMessage(text) == ("role" :> "user" @@ "content" :> text)

\* greet_user: the greeting f-string around user_name, step_count + 1
greet_user(s) ==
    LET user_name == Get(s, "user_name", "default_user")
        greeting  == <<"hello,", user_name, "!">>
    IN  Returns(("messages" :> <<AssistantMessage(greeting)>>
                 @@ "step_count" :> Get(s, "step_count", 0) + 1))

\* process_input: quotes the content of the last message, step_count + 1
process_input(s) ==
    LET messages     == Get(s, "messages", <<>>)
        last_message == IF messages # <<>> THEN messages[Len(messages)]["content"] ELSE <<>>
        response     == <<"'">> \o last_message
                        \o <<"' processed. step:", ToString(Get(s, "step_count", 0) + 1)>>
    IN  Returns(("messages" :> <<AssistantMessage(response)>>
                 @@ "step_count" :> Get(s, "step_count", 0) + 1))

summarize_NoIncrement(s) ==
    LET step_count    == Get(s, "step_count", 0)
        message_count == Len(Get(s, "messages", <<>>))
        summary       == <<"steps:", ToString(step_count),
                           "messages:", ToString(message_count)>>
    IN  Returns(("messages" :> <<AssistantMessage(summary)>>
                 @@ "step_count" :> step_count))

\* summarize: reports step_count and the number of messages, step_count + 1
summarize(s) ==
    LET step_count    == Get(s, "step_count", 0)
        message_count == Len(Get(s, "messages", <<>>))
        summary       == <<"steps:", ToString(step_count),
                           "messages:", ToString(message_count)>>
    IN  Returns(("messages" :> <<AssistantMessage(summary)>>
                 @@ "step_count" :> step_count + 1))

\* run_basic_agent: the initial state it builds
BasicInitialState(user_name, user_input) ==
    AgentState(<<UserMessage(user_input)>>, user_name, 0)

----------------------------------------------------------------------------
(* conditional_agent.py *)

GreetingKeywords == {<<"an", "nyeong">>, <<"h", "e", "l", "l", "o">>, <<"h", "i">>,
                     <<"hel", "lo">>}
QuestionKeywords == {<<"?">>, <<"mwo">>, <<"mu", "eot">>, <<"eo", "tteoh", "ge">>,
                     <<"wae">>, <<"eon", "je">>}
CommandKeywords  == {<<"hae", "jwo">>, <<"sil", "haeng">>, <<"si", "jak">>,
                     <<"meom", "chwo">>, <<"jung", "ji">>}

MessageTypeOf_QuestionFirst(text) ==
    LET message == Lower(text)
    IN  IF \E q \in QuestionKeywords : Contains(message, q) THEN "question"
        ELSE IF \E greeting \in GreetingKeywords : Contains(message, greeting) THEN "greeting"
        ELSE IF \E cmd \in CommandKeywords : Contains(message, cmd) THEN "command"
        ELSE "unknown"

\* the if / elif / elif / else chain of classify_message
MessageTypeOf(text) ==
    LET message == Lower(text)
    IN  IF \E greeting \in GreetingKeywords : Contains(message, greeting) THEN "greeting"
        ELSE IF \E q \in QuestionKeywords : Contains(message, q) THEN "question"
        ELSE IF \E cmd \in CommandKeywords : Contains(message, cmd) THEN "command"
        ELSE "unknown"

classify_message_KeepsType(s) == 
    IF MessageTypeOf(s["message"]) = "unknown"
    THEN Returns(("message_type" :> s["message_type"]))
    ELSE Returns(("message_type" :> MessageTypeOf(s["message"])))

classify_message(s) == Returns(("message_type" :> MessageTypeOf(s["message"])))

handle_greeting(s) ==
    Returns(("response" :> <<"hello! how can I help?">> @@ "processed" :> TRUE))

handle_question(s) ==
    Returns(("response" :> <<"'">> \o s["message"] \o <<"' looking for an answer...">>
             @@ "processed" :> TRUE))

handle_command(s) ==
    Returns(("response" :> <<"running command: ">> \o s["message"]
             @@ "processed" :> TRUE))

handle_unknown_ClearsMessage(s) ==
    Returns(("message" :> <<>>
             @@ "response" :> <<"sorry, I did not understand.">>
             @@ "processed" :> TRUE))

handle_unknown(s) ==
    Returns(("response" :> <<"sorry, I did not understand.">> @@ "processed" :> TRUE))

route_message_Fixed(s) == "unknown"

\* route_message: the label is the message_type field
route_message(s) == s["message_type"]

\* run_conditional_agent: the initial state it builds
ConditionalInitialState(message) == ConditionalState(message, "", <<>>, FALSE)

Messages == SeqsUpTo(Alphabet, MaxLen)

\* message_type values a direct caller of the compiled graph may pass
InitialMessageTypes == {"", "greeting", "bogus"}

----------------------------------------------------------------------------
(* llm_agent.py *)

HumanMessage(text) == ("content" :> text @@ "type" :> "human")
AIMessage(text) == ("content" :> text @@ "type" :> "ai")

ModelNames == {"gpt-3.5-turbo"}
Questions == {"q1", "q2"}

\* What llm.invoke(messages) does: it returns a response or raises.
LlmReplies == {"r1", "r2"}
LlmOutcomes == LlmReplies \cup {"error"}

call_llm_CatchesError(s, key, outcome) ==
    IF ~key
    THEN Returns(("messages" :> <<AIMessage("api key needed")>>))
    ELSE IF outcome = "error"
    THEN Returns(("messages" :> <<AIMessage("error")>>))
    ELSE Returns(("messages" :> <<AIMessage(outcome)>>))

\* call_llm: without an API key it returns a fixed notice; with one it
\* returns the model's response, and the model call may raise.
call_llm(s, key, outcome) ==
    IF ~key
    THEN Returns(("messages" :> <<AIMessage("api key needed")>>))
    ELSE IF outcome = "error"
    THEN Raises
    ELSE Returns(("messages" :> <<AIMessage(outcome)>>))

\* run_llm_agent: the initial state it builds
LlmInitialState(user_message, model_name) ==
    ChatState(<<HumanMessage(user_message)>>, model_name)

\* messages lists a direct caller of the compiled graph may pass
Histories ==
    SeqsUpTo({HumanMessage(q) : q \in Questions} \cup {AIMessage(r) : r \in LlmReplies},
             MaxHistory)

----------------------------------------------------------------------------
(* The scenario graphs of section 8 *)

ScenarioMessages == {"mx", "my", "mz"}

\* The classifier writes label; "mz" gets a label the edge does not map.
classifier(s) ==
    Returns(("label" :> CASE s["message"] = "mx" -> "x"
                         [] s["message"] = "my" -> "y"
                         [] OTHER -> "z"))

route_label(s) == s["label"]

\* ping, pong: count the invocation
count_step(s) == Returns(("count" :> Get(s, "count", 0) + 1))

\* nodeX, nodeY: count the invocation, or raise
may_fail(s, fails) == IF fails THEN Raises ELSE count_step(s)

----------------------------------------------------------------------------
(* The engine: edge table, compiler, reducers (sections 3 and 4)           *)

Range(f) == {f[x] : x \in DOMAIN f}

NodeNames(G) == {G.nodes[i][1] : i \in DOMAIN G.nodes}

FunctionOf(G, name) ==
    G.nodes[CHOOSE i \in DOMAIN G.nodes : G.nodes[i][1] = name][2]

\* the add_edge calls, and the add_conditional_edges calls, whose source is n
StaticEdgesFrom(G, n) == {i \in DOMAIN G.edges : G.edges[i][1] = n}
CondEdgesFrom(G, n) == {i \in DOMAIN G.cond : G.cond[i].src = n}

Successors(G, n) ==
    {G.edges[i][2] : i \in StaticEdgesFrom(G, n)}
        \cup UNION {Range(G.cond[i].mapping) : i \in CondEdgesFrom(G, n)}

RECURSIVE ReachableFrom(_, _)
ReachableFrom(G, S) ==
    LET more == S \cup UNION {Successors(G, n) : n \in S}
    IN  IF more = S THEN S ELSE ReachableFrom(G, more)

\* compile: every violation of the invariants of section 3, all at once
CompileErrors(G) ==
    LET names == NodeNames(G)
        out(n) == Cardinality(StaticEdgesFrom(G, n)) + Cardinality(CondEdgesFrom(G, n))
    IN  {"start marker: not exactly one outgoing edge" : x \in {1} \ {out(START)}}
        \cup {"edge source is not registered" : i \in
                 {j \in DOMAIN G.edges : G.edges[j][1] \notin names \cup {START, END}}
                 \cup {j \in DOMAIN G.cond : G.cond[j].src \notin names \cup {START, END}}}
        \cup {"edge target is not registered" : i \in
                 {j \in DOMAIN G.edges : G.edges[j][2] \notin names \cup {END}}
                 \cup {j \in DOMAIN G.cond :
                          ~(Range(G.cond[j].mapping) \subseteq names \cup {END})}}
        \cup {"node not reachable from start" : n \in names \ ReachableFrom(G, {START})}
        \cup {"node: not exactly one outgoing edge" : n \in {m \in names : out(m) # 1}}
        \cup {"terminal marker has an outgoing edge" : x \in {0} \ {out(END)}}
        \cup {"duplicate node" : i \in
                 {j \in DOMAIN G.nodes :
                     \E k \in DOMAIN G.nodes : k # j /\ G.nodes[k][1] = G.nodes[j][1]}}

\* overwrite(old, new) = new; append(old, new) = old followed by new, an
\* absent old being the empty sequence
Reduce(reducer, s, field, new) ==
    IF reducer = "append" THEN Get(s, field, <<>>) \o new ELSE new

\* Merging a partial update into the accumulated state, field by field
Merge(g, s, update) ==
    [f \in DOMAIN s \cup (DOMAIN update \ DOMAIN s) |->
        IF f \in DOMAIN update THEN Reduce(ReducerOf(g, f), s, f, update[f]) ELSE s[f]]

\* The router functions, by name
Route(router, s) ==
    CASE router = "route_message" -> route_message(s)
      [] router = "route_label" -> route_label(s)

Resolve_FallsThrough(G, n, s) ==
    IF CondEdgesFrom(G, n) # {}
    THEN LET c     == G.cond[CHOOSE i \in CondEdgesFrom(G, n) : TRUE]
             label == Route(c.router, s)
         IN  IF label \in DOMAIN c.mapping
             THEN [label |-> label, kind |-> "target", target |-> c.mapping[label]]
             ELSE [label |-> label, kind |-> "target", target |-> END]
    ELSE [label  |-> "",
          kind   |-> "target",
          target |-> G.edges[CHOOSE i \in StaticEdgesFrom(G, n) : TRUE][2]]

\* Resolution of the next node from node n: the static target, or the
\* router's label looked up in the mapping of the conditional edge
Resolve(G, n, s) ==
    IF CondEdgesFrom(G, n) # {}
    THEN LET c     == G.cond[CHOOSE i \in CondEdgesFrom(G, n) : TRUE]
             label == Route(c.router, s)
         IN  IF label \in DOMAIN c.mapping
             THEN [label |-> label, kind |-> "target", target |-> c.mapping[label]]
             ELSE [label |-> label, kind |-> "unmapped", target |-> ""]
    ELSE [label  |-> "",
          kind   |-> "target",
          target |-> G.edges[CHOOSE i \in StaticEdgesFrom(G, n) : TRUE][2]]

\* What the world outside the engine decides during an invocation of the
\* named node function: the outcome of the model call, or whether a
\* scenario node fails.
Choices(fn) ==
    CASE fn = "call_llm" -> LlmOutcomes
      [] fn = "may_fail" -> {"ok", "error"}
      [] OTHER -> {"ok"}

\* The result of invoking the named node function on state s
Call(fn, s, key, choice) ==
    CASE fn = "greet_user" -> greet_user(s)
      [] fn = "process_input" -> process_input(s)
      [] fn = "summarize" -> summarize(s)
      [] fn = "classify_message" -> classify_message(s)
      [] fn = "handle_greeting" -> handle_greeting(s)
      [] fn = "handle_question" -> handle_question(s)
      [] fn = "handle_command" -> handle_command(s)
      [] fn = "handle_unknown" -> handle_unknown(s)
      [] fn = "call_llm" -> call_llm(s, key, choice)
      [] fn = "classifier" -> classifier(s)
      [] fn = "count_step" -> count_step(s)
      [] fn = "may_fail" -> may_fail(s, choice = "error")

\* The model calls made so far, with the one this invocation makes (call_llm
\* reaches llm.invoke only when the API key is set)
ModelCallsAfter(calls, fn, key, choice) ==
    IF fn = "call_llm" /\ key THEN Append(calls, choice) ELSE calls

----------------------------------------------------------------------------
(* The state machine *)

NoState == <<>>

Init ==
    /\ api_key \in BOOLEAN
    /\ pc = "idle"
    /\ entry = ""
    /\ graphName = ""
    /\ current = START
    /\ state = NoState
    /\ initial = NoState
    /\ visited = <<>>
    /\ updates = <<>>
    /\ stepLimit = <<>>
    /\ errNode = ""
    /\ errLabel = ""
    /\ modelCalls = <<>>
    /\ loop = "off"
    /\ conversation_model = ""
    /\ conversation_history = <<>>
    /\ inputs = <<>>
    /\ phase = "off"
    /\ args = <<>>
    /\ pending = <<>>
    /\ dirs = <<>>
    /\ created = <<>>
    /\ files = <<>>
    /\ printed = <<>>

\* create_*_agent() followed by app.invoke(init): the graph is compiled, and
\* the run starts at the start marker with the caller's state.
Begin(e, g, init, limit) ==
    /\ pc = "idle"
    /\ pc' = IF CompileErrors(GraphOf(g)) = {} THEN "running" ELSE "GraphDefinitionError"
    /\ entry' = e
    /\ graphName' = g
    /\ current' = START
    /\ state' = init
    /\ initial' = init
    /\ stepLimit' = limit
    /\ UNCHANGED <<api_key, visited, updates, errNode, errLabel, modelCalls>>
    /\ UNCHANGED <<conversation, cli>>

RunBasicAgent ==
    \E user_name \in UserNames, user_input \in UserInputs :
        Begin("run_basic_agent", "basic", BasicInitialState(user_name, user_input), <<>>)

\* The compiled basic graph invoked with a state of the caller's own
InvokeBasic ==
    \E user_name \in UserNames, user_input \in UserInputs, n \in 0..MaxInitStep :
        \E init \in {AgentState(<<UserMessage(user_input)>>, user_name, n),
                     ("messages" :> <<UserMessage(user_input)>>
                      @@ "user_name" :> user_name),
                     ("step_count" :> n)} :
            Begin("invoke", "basic", init, <<>>)

RunConditionalAgent ==
    \E message \in Messages :
        Begin("run_conditional_agent", "conditional", ConditionalInitialState(message), <<>>)

\* The compiled conditional graph invoked with a state of the caller's own
InvokeConditional ==
    \E message \in Messages, message_type \in InitialMessageTypes :
        Begin("invoke", "conditional",
              ConditionalState(message, message_type, <<>>, FALSE), <<>>)

RunLlmAgent ==
    \E user_message \in Questions, model_name \in ModelNames :
        Begin("run_llm_agent", "llm", LlmInitialState(user_message, model_name), <<>>)

\* The compiled llm graph invoked with a messages list of the caller's own
InvokeLlm ==
    \E history \in Histories, model_name \in ModelNames :
        Begin("invoke", "llm", ChatState(history, model_name), <<>>)

RunRoutingScenario ==
    \E message \in ScenarioMessages :
        Begin("scenario", "routing", ("message" :> message
              @@ "label" :> ""
              @@ "count" :> 0), <<>>)

RunCycleScenario ==
    \E limit \in 1..MaxStepLimit :
        Begin("scenario", "cycle", ("count" :> 0), <<limit>>)

Resolved == Resolve(GraphOf(graphName), current, state)

\* The function registered for the resolved node
NextFunction == FunctionOf(GraphOf(graphName), Resolved.target)

LimitReached_OffByOne == stepLimit = <<Len(visited) - 1>>

\* The caller gave a step limit and that many nodes have been invoked
LimitReached == stepLimit = <<Len(visited)>>

\* One transition of the executor: the resolved node is invoked and its
\* update merged.
InvokeNode ==
    /\ pc = "running"
    /\ Resolved.kind = "target"
    /\ Resolved.target # END
    /\ ~LimitReached
    /\ \E choice \in Choices(NextFunction) :
        LET result == Call(NextFunction, state, api_key, choice)
        IN  /\ ~result.raised
            /\ state' = Merge(graphName, state, result.update)
            /\ updates' = Append(updates, result.update)
            /\ modelCalls' = ModelCallsAfter(modelCalls, NextFunction, api_key, choice)
    /\ current' = Resolved.target
    /\ visited' = Append(visited, Resolved.target)
    /\ UNCHANGED <<api_key, pc, entry, graphName, initial, stepLimit, errNode, errLabel>>
    /\ UNCHANGED <<conversation, cli>>

\* The resolved node raises: the run aborts with a NodeExecutionError.
NodeFails ==
    /\ pc = "running"
    /\ Resolved.kind = "target"
    /\ Resolved.target # END
    /\ ~LimitReached
    /\ \E choice \in Choices(NextFunction) :
        /\ Call(NextFunction, state, api_key, choice).raised
        /\ modelCalls' = ModelCallsAfter(modelCalls, NextFunction, api_key, choice)
    /\ pc' = "NodeExecutionError"
    /\ errNode' = Resolved.target
    /\ UNCHANGED <<api_key, entry, graphName, current, state, initial, visited, updates,
                   stepLimit, errLabel>>
    /\ UNCHANGED <<conversation, cli>>

\* The resolved next node is the terminal marker: the run ends.
Finish ==
    /\ pc = "running"
    /\ Resolved.kind = "target"
    /\ Resolved.target = END
    /\ pc' = "done"
    /\ UNCHANGED <<api_key, entry, graphName, current, state, initial, visited, updates,
                   stepLimit, errNode, errLabel, modelCalls>>
    /\ UNCHANGED <<conversation, cli>>

\* The router's label is not in the mapping: the run fails with a RoutingError.
RoutingFails ==
    /\ pc = "running"
    /\ Resolved.kind = "unmapped"
    /\ pc' = "RoutingError"
    /\ errNode' = current
    /\ errLabel' = Resolved.label
    /\ UNCHANGED <<api_key, entry, graphName, current, state, initial, visited, updates,
                   stepLimit, modelCalls>>
    /\ UNCHANGED <<conversation, cli>>

\* Another node is due and the caller's step limit is used up.
StepLimitExceeded ==
    /\ pc = "running"
    /\ Resolved.kind = "target"
    /\ Resolved.target # END
    /\ LimitReached
    /\ pc' = "StepLimitExceededError"
    /\ UNCHANGED <<api_key, entry, graphName, current, state, initial, visited, updates,
                   stepLimit, errNode, errLabel, modelCalls>>
    /\ UNCHANGED <<conversation, cli>>

Next ==
    \/ RunBasicAgent
    \/ InvokeBasic
    \/ RunConditionalAgent
    \/ InvokeConditional
    \/ RunLlmAgent
    \/ InvokeLlm
    \/ RunRoutingScenario
    \/ RunCycleScenario
    \/ InvokeNode
    \/ NodeFails
    \/ Finish
    \/ RoutingFails
    \/ StepLimitExceeded

Spec == Init /\ [][Next]_vars

\* One turn of the executor loop.  The loop runs without waiting on anything
\* but the node it invokes, so a run that can take a turn does take it.
Step == InvokeNode \/ NodeFails \/ Finish \/ RoutingFails \/ StepLimitExceeded

FairSpec == Init /\ [][Next]_vars /\ WF_vars(Step)

----------------------------------------------------------------------------
(* run_conversation: the interactive loop of llm_agent.py.  One compiled    *)
(* llm graph serves every turn; each accepted line is one run of it.        *)

\* Lines the user may type, before strip(): empty and blank lines, the quit
\* words in several spellings, and ordinary text ("quite" begins with a quit
\* word, "h i" has a space inside).
ConversationInputs ==
    {<<>>, <<" ", " ">>,
     <<"h", "i">>, <<" ", "h", " ", "i", " ">>, <<"q", "u", "i", "t", "e">>,
     <<"Q", "u", "i", "t", " ">>, <<"e", "x", "i", "t">>, <<"jong", "ryo">>}

QuitWords == {<<"q", "u", "i", "t">>, <<"e", "x", "i", "t">>, <<"jong", "ryo">>}

RECURSIVE LStrip(_)
LStrip(s) == IF s # <<>> /\ s[1] = " " THEN LStrip(Tail(s)) ELSE s

RECURSIVE RStrip(_)
RStrip(s) == IF s # <<>> /\ s[Len(s)] = " " THEN RStrip(SubSeq(s, 1, Len(s) - 1)) ELSE s

\* str.strip()
Strip(s) == RStrip(LStrip(s))

HistoryAfterTurn_Extends(history, result) == history \o result["messages"]

\* conversation_history = result["messages"]
HistoryAfterTurn(history, result) == result["messages"]

\* run_conversation up to its loop: without an API key it prints the setup
\* notice and returns; with one it compiles the llm graph and starts with an
\* empty history.
RunConversation ==
    /\ pc = "idle"
    /\ loop = "off"
    /\ \E model_name \in ModelNames :
        IF ~api_key
        THEN /\ loop' = "returned"
             /\ UNCHANGED <<graphName, conversation_model>>
        ELSE /\ loop' = IF CompileErrors(GraphOf("llm")) = {} THEN "prompt" ELSE "ended"
             /\ graphName' = "llm"
             /\ conversation_model' = model_name
    /\ entry' = "run_conversation"
    /\ conversation_history' = <<>>
    /\ UNCHANGED <<api_key, pc, current, state, initial, visited, updates, stepLimit,
                   errNode, errLabel, modelCalls, inputs>>
    /\ UNCHANGED cli

\* One pass of the loop body up to app.invoke: a quit word ends the loop, an
\* empty line is skipped, any other line is appended to the history as a
\* HumanMessage and a run of the graph starts on that history.
ReadLine ==
    /\ loop = "prompt"
    /\ Len(inputs) < MaxInputs
    /\ \E line \in ConversationInputs :
        LET user_input == Strip(line)
        IN  /\ inputs' = Append(inputs, line)
            /\ IF Lower(user_input) \in QuitWords
               THEN /\ loop' = "ended"
                    /\ UNCHANGED <<pc, current, state, initial, visited, updates,
                                   conversation_history>>
               ELSE IF user_input = <<>>
               THEN UNCHANGED <<loop, pc, current, state, initial, visited, updates,
                                conversation_history>>
               ELSE LET history == Append(conversation_history, HumanMessage(user_input))
                    IN  /\ conversation_history' = history
                        /\ loop' = "invoking"
                        /\ pc' = "running"
                        /\ current' = START
                        /\ state' = ChatState(history, conversation_model)
                        /\ initial' = ChatState(history, conversation_model)
                        /\ visited' = <<>>
                        /\ updates' = <<>>
    /\ UNCHANGED <<api_key, entry, graphName, stepLimit, errNode, errLabel, modelCalls,
                   conversation_model>>
    /\ UNCHANGED cli

\* The rest of the loop body: app.invoke returned, its messages become the
\* history and the loop prompts again.
TurnEnds ==
    /\ loop = "invoking"
    /\ pc = "done"
    /\ conversation_history' = HistoryAfterTurn(conversation_history, state)
    /\ loop' = "prompt"
    /\ pc' = "idle"
    /\ UNCHANGED <<api_key, entry, graphName, current, state, initial, visited, updates,
                   stepLimit, errNode, errLabel, modelCalls, conversation_model, inputs>>
    /\ UNCHANGED cli

ConversationNext ==
    \/ RunConversation
    \/ ReadLine
    \/ InvokeNode
    \/ NodeFails
    \/ Finish
    \/ TurnEnds

ConversationSpec == Init /\ [][ConversationNext]_vars

----------------------------------------------------------------------------
(* visualize_graphs.py: the command that prints and saves the diagrams of   *)
(* the three graphs.  A path is the sequence of its components; a file name *)
(* is the sequence of the pieces its f-string joins.                        *)

AgentChoices == {"basic", "conditional", "llm", "all"}
FormatChoices == {"mermaid", "png", "all"}
OutputDirs == {"reports", "out"}

\* Path.parent
Parent(path) == SubSeq(path, 1, Len(path) - 1)

\* Path.mkdir(parents=True, exist_ok=True): the directories that exist afterwards
MkDir(existing, d) == IF d \in Range(existing) THEN existing ELSE Append(existing, d)

\* The directories the process has created, after such a mkdir
CreatedAfter(existing, made, d) == IF d \in Range(existing) THEN made ELSE Append(made, d)

\* main: parse the command line and branch on --agent.  The output directory
\* may or may not exist when the command starts.
Main ==
    /\ phase = "off"
    /\ pc = "idle"
    /\ loop = "off"
    /\ \E a \in AgentChoices, f \in FormatChoices, d \in OutputDirs, n \in BOOLEAN :
        /\ args' = [agent |-> a, format |-> f, output_dir |-> d, no_save |-> n]
        /\ phase' = IF a = "all" THEN "all" ELSE "single"
        /\ pending' = IF a = "all" THEN <<"basic", "conditional", "llm">> ELSE <<a>>
    /\ \E before \in {<<>>, << <<"reports">> >>} : dirs' = before
    /\ entry' = "visualize_graphs"
    /\ UNCHANGED <<api_key, pc, graphName, current, state, initial, visited, updates,
                   stepLimit, errNode, errLabel, modelCalls, created, files, printed>>
    /\ UNCHANGED conversation

\* visualize_all_agents up to its loop: the output directory is made
VisualizeAllBegin ==
    /\ phase = "all"
    /\ dirs' = MkDir(dirs, <<args.output_dir>>)
    /\ created' = CreatedAfter(dirs, created, <<args.output_dir>>)
    /\ phase' = "loop"
    /\ UNCHANGED <<api_key, pc, entry, graphName, current, state, initial, visited, updates,
                   stepLimit, errNode, errLabel, modelCalls, args, pending, files, printed>>
    /\ UNCHANGED conversation

\* One pass of the loop of visualize_all_agents: the diagram is printed and,
\* when save_files is set, saved as Markdown and, if the PNG can be drawn,
\* as PNG.
VisualizeAllAgent ==
    /\ phase = "loop"
    /\ pending # <<>>
    /\ LET agent_key    == Head(pending)
           save_files   == ~args.no_save
           mermaid_path == <<args.output_dir, <<agent_key, "_agent_graph.md">> >>
           png_path     == <<args.output_dir, <<agent_key, "_agent_graph.png">> >>
       IN  /\ printed' = Append(printed, agent_key)
           /\ IF save_files
              THEN \E png_ok \in BOOLEAN :
                     /\ files' = files \o <<mermaid_path>>
                                     \o (IF png_ok THEN <<png_path>> ELSE <<>>)
                     /\ dirs' = MkDir(dirs, Parent(mermaid_path))
                     /\ created' = CreatedAfter(dirs, created, Parent(mermaid_path))
              ELSE UNCHANGED <<files, dirs, created>>
    /\ pending' = Tail(pending)
    /\ phase' = IF Tail(pending) = <<>> THEN "done" ELSE "loop"
    /\ UNCHANGED <<api_key, pc, entry, graphName, current, state, initial, visited, updates,
                   stepLimit, errNode, errLabel, modelCalls, args>>
    /\ UNCHANGED conversation

\* visualize_single_agent: for the mermaid format the diagram is printed and
\* saved, for the png format it is saved if it can be drawn; the function is
\* not passed save_files.
VisualizeSingleAgent ==
    /\ phase = "single"
    /\ LET agent_name  == Head(pending)
           format_type == args.format
           md_path     == <<args.output_dir, <<agent_name, "_graph.md">> >>
           png_path    == <<args.output_dir, <<agent_name, "_graph.png">> >>
       IN  \E png_ok \in BOOLEAN :
             LET written == (IF format_type \in {"mermaid", "all"} THEN <<md_path>> ELSE <<>>)
                            \o (IF format_type \in {"png", "all"} /\ png_ok
                                THEN <<png_path>> ELSE <<>>)
             IN  /\ printed' = IF format_type \in {"mermaid", "all"}
                                THEN Append(printed, agent_name) ELSE printed
                 /\ files' = files \o written
                 /\ dirs' = IF written # <<>> THEN MkDir(dirs, Parent(md_path)) ELSE dirs
                 /\ created' = IF written # <<>>
                               THEN CreatedAfter(dirs, created, Parent(md_path))
                               ELSE created
    /\ pending' = <<>>
    /\ phase' = "done"
    /\ UNCHANGED <<api_key, pc, entry, graphName, current, state, initial, visited, updates,
                   stepLimit, errNode, errLabel, modelCalls, args>>
    /\ UNCHANGED conversation

VisualizeNext ==
    \/ Main
    \/ VisualizeAllBegin
    \/ VisualizeAllAgent
    \/ VisualizeSingleAgent

VisualizeSpec == Init /\ [][VisualizeNext]_vars

----------------------------------------------------------------------------
(* Properties *)

Handlers == {"greeting", "question", "command", "unknown"}

IsPrefix(s, full) == Len(s) <= Len(full) /\ s = SubSeq(full, 1, Len(s))

Ended == pc \notin {"idle", "running"}

\* The accumulated state after the first k updates of the run
RECURSIVE MergedAfter(_)
MergedAfter(k) ==
    IF k = 0 THEN initial ELSE Merge(graphName, MergedAfter(k - 1), updates[k])

\* The updates of the run that supply field f, in order
UpdatesOf(f) == SelectSeq(updates, LAMBDA u : f \in DOMAIN u)

RECURSIVE Concat(_, _)
\* The values of field f in a sequence of updates, concatenated
Concat(us, f) == IF us = <<>> THEN <<>> ELSE us[1][f] \o Concat(Tail(us), f)

\* C1: in the conditional agent a run invokes classify first, then exactly one
\* handler, the one named by the message_type classify wrote, and then ends;
\* no other handler is invoked in the run.
C1_ClassifyThenOneHandler ==
    graphName = "conditional" =>
        /\ Len(visited) <= 2
        /\ Len(visited) >= 1 => visited[1] = "classify"
        /\ Len(visited) = 2 =>
              /\ visited[2] \in Handlers
              /\ visited[2] = updates[1]["message_type"]
              /\ visited[2] = MessageTypeOf(initial["message"])
        /\ pc = "done" => Len(visited) = 2
        /\ Len(visited) = 2 /\ pc = "running" => Resolved.target = END

C1_Witness ==
    /\ graphName = "conditional"
    /\ pc = "done"
    /\ visited = <<"classify", "command">>
    /\ initial["message"] = <<"x", "hae", "jwo">>

\* C2: in the basic agent every run invokes greet, process, summarize once
\* each and in that order before it ends; a transition invokes one node, and
\* each node is given the state merged from all earlier nodes.
C2_BasicOrder ==
    /\ [](graphName = "basic" =>
            /\ IsPrefix(visited, <<"greet", "process", "summarize">>)
            /\ pc = "done" => visited = <<"greet", "process", "summarize">>
            /\ Len(updates) = Len(visited)
            /\ state = MergedAfter(Len(updates))
            /\ Len(updates) >= 1 => updates[1] = greet_user(MergedAfter(0)).update
            /\ Len(updates) >= 2 => updates[2] = process_input(MergedAfter(1)).update
            /\ Len(updates) >= 3 => updates[3] = summarize(MergedAfter(2)).update)
    /\ [][graphName = "basic" /\ visited' # visited =>
            /\ Len(visited') = Len(visited) + 1
            /\ SubSeq(visited', 1, Len(visited)) = visited]_vars

C2_Witness ==
    /\ graphName = "basic"
    /\ pc = "done"
    /\ visited = <<"greet", "process", "summarize">>

\* C3: in the basic agent the final messages are the caller's user message
\* followed by the greet, process and summarize messages, 4 entries, none
\* dropped or replaced.
C3_MessagesAccumulate ==
    graphName = "basic" /\ entry = "run_basic_agent" /\ pc = "done" =>
        /\ Len(state["messages"]) = 4
        /\ state["messages"] = initial["messages"] \o Concat(updates, "messages")

\* C4: an overwrite field holds the most recent update supplied for it; in
\* the basic agent the final step_count is the initial one plus 3, and 3
\* after run_basic_agent.
C4_StepCount ==
    /\ pc \in {"running", "done"} =>
          \A f \in DOMAIN state :
              ReducerOf(graphName, f) = "overwrite" =>
                  state[f] = IF UpdatesOf(f) = <<>> THEN initial[f]
                             ELSE UpdatesOf(f)[Len(UpdatesOf(f))][f]
    /\ graphName = "basic" /\ pc = "done" =>
          /\ state["step_count"] = Get(initial, "step_count", 0) + 3
          /\ entry = "run_basic_agent" => state["step_count"] = 3

C4_Witness ==
    /\ graphName = "basic"
    /\ pc = "done"
    /\ entry = "invoke"
    /\ "step_count" \in DOMAIN initial
    /\ initial["step_count"] = 2
    /\ state["step_count"] = 5

\* C5: an append field holds the initial value followed by every update in
\* visitation order; in the llm agent the final messages of a successful run
\* are the caller's initial messages followed by the one response of the llm
\* node.
C5_LlmMessagesAppend ==
    graphName = "llm" =>
        /\ pc \in {"running", "done"} =>
              state["messages"] = initial["messages"] \o Concat(updates, "messages")
        /\ pc = "done" =>
              /\ Len(updates) = 1
              /\ Len(updates[1]["messages"]) = 1
              /\ updates[1]["messages"][1]["type"] = "ai"
              /\ state["messages"] = Append(initial["messages"], updates[1]["messages"][1])

C5_Witness ==
    /\ graphName = "llm"
    /\ pc = "done"
    /\ Len(initial["messages"]) = 2
    /\ modelCalls = <<"r1">>
    /\ state["messages"] = Append(initial["messages"], AIMessage("r1"))

\* The router of the conditional edge leaving the current node, and whether
\* the label it returns on the accumulated state is missing from the mapping
CurrentCond ==
    GraphOf(graphName).cond[CHOOSE i \in CondEdgesFrom(GraphOf(graphName), current) : TRUE]

UnmappedLabelDue ==
    /\ pc = "running"
    /\ CondEdgesFrom(GraphOf(graphName), current) # {}
    /\ Route(CurrentCond.router, state) \notin DOMAIN CurrentCond.mapping

\* C6: when a router returns a label that is not a key of its edge's mapping,
\* the run fails with a RoutingError naming the source node and the label; no
\* further node is invoked and the run does not reach the terminal marker.
C6_UnmappedLabelFails ==
    /\ [](pc = "RoutingError" =>
            /\ CondEdgesFrom(GraphOf(graphName), errNode) # {}
            /\ errNode = current
            /\ errLabel = Route(CurrentCond.router, state)
            /\ errLabel \notin DOMAIN CurrentCond.mapping)
    /\ [][UnmappedLabelDue =>
            /\ pc' = "RoutingError"
            /\ errNode' = current
            /\ errLabel' = Route(CurrentCond.router, state)
            /\ UNCHANGED <<state, visited, updates, current>>]_vars
    /\ [][pc = "RoutingError" => UNCHANGED vars]_vars

C6_Witness ==
    /\ graphName = "routing"
    /\ pc = "RoutingError"
    /\ errNode = "classifier"
    /\ errLabel = "z"
    /\ visited = <<"classifier">>

\* C7: when a node invocation fails the run aborts with a NodeExecutionError
\* naming the node; nothing of the failing invocation is merged, no later
\* node is invoked, there is no retry, and the state merged by earlier nodes
\* is kept.  In the llm agent a failing model call leaves messages equal to
\* the caller's initial messages.
C7_NodeFailureAborts ==
    /\ [](pc = "NodeExecutionError" =>
            /\ state = MergedAfter(Len(updates))
            /\ Len(updates) = Len(visited)
            /\ Resolved.kind = "target" /\ errNode = Resolved.target)
    /\ [](graphName = "llm" /\ modelCalls # <<>> /\ modelCalls[Len(modelCalls)] = "error" =>
            /\ pc = "NodeExecutionError"
            /\ errNode = "llm"
            /\ modelCalls = <<"error">>
            /\ visited = <<>>
            /\ state["messages"] = initial["messages"]
            /\ state = initial)
    /\ [][pc # "NodeExecutionError" /\ pc' = "NodeExecutionError" =>
            UNCHANGED <<state, visited, updates, current>>]_vars
    /\ [][pc = "NodeExecutionError" => UNCHANGED vars]_vars

C7_Witness ==
    /\ graphName = "llm"
    /\ pc = "NodeExecutionError"
    /\ errNode = "llm"
    /\ modelCalls = <<"error">>
    /\ Len(initial["messages"]) = 2
    /\ state["messages"] = initial["messages"]

\* A failure after an earlier node's update was merged
C7_WitnessEarlierStateKept ==
    /\ graphName = "routing"
    /\ pc = "NodeExecutionError"
    /\ errNode = "nodeY"
    /\ visited = <<"classifier">>
    /\ state["label"] = "y"

\* C8: a run over a cycle with no path to the terminal marker, given the step
\* limit N, fails with StepLimitExceededError after exactly N node
\* invocations: not earlier, not after an (N+1)-th, and without a final state.
C8_StepLimit ==
    /\ pc = "StepLimitExceededError" => stepLimit = <<Len(visited)>>
    /\ graphName = "cycle" =>
          /\ stepLimit # <<>>
          /\ Len(visited) <= stepLimit[1]
          /\ Len(updates) = Len(visited)
          /\ state["count"] = Len(visited)
          /\ pc \in {"running", "StepLimitExceededError"}
          /\ Len(visited) = stepLimit[1] /\ pc = "running" =>
                ENABLED StepLimitExceeded /\ ~ENABLED InvokeNode

C8_Witness ==
    /\ graphName = "cycle"
    /\ pc = "StepLimitExceededError"
    /\ stepLimit = <<3>>
    /\ visited = <<"ping", "pong", "ping">>

\* The invariants of a compiled graph, stated on the registration calls
StartHasOneEdge(G) ==
    Cardinality(StaticEdgesFrom(G, START)) + Cardinality(CondEdgesFrom(G, START)) = 1

TargetsRegistered(G) ==
    /\ \A i \in DOMAIN G.edges : G.edges[i][2] \in NodeNames(G) \cup {END}
    /\ \A i \in DOMAIN G.edges : G.edges[i][1] \in NodeNames(G) \cup {START}
    /\ \A i \in DOMAIN G.cond :
          /\ G.cond[i].src \in NodeNames(G)
          /\ \A label \in DOMAIN G.cond[i].mapping :
                G.cond[i].mapping[label] \in NodeNames(G) \cup {END}

AllReachable(G) == NodeNames(G) \subseteq ReachableFrom(G, {START})

OneEdgeKindPerNode(G) ==
    \A n \in NodeNames(G) :
        \/ Cardinality(StaticEdgesFrom(G, n)) = 1 /\ CondEdgesFrom(G, n) = {}
        \/ Cardinality(CondEdgesFrom(G, n)) = 1 /\ StaticEdgesFrom(G, n) = {}

TerminalHasNoEdge(G) == StaticEdgesFrom(G, END) = {} /\ CondEdgesFrom(G, END) = {}

\* C9: each of the three graphs the repository builds satisfies every
\* compile-time invariant, so compile reports no GraphDefinitionError for it.
C9_RepoGraphsCompile ==
    graphName \in RepoGraphs =>
        /\ StartHasOneEdge(GraphOf(graphName))
        /\ TargetsRegistered(GraphOf(graphName))
        /\ AllReachable(GraphOf(graphName))
        /\ OneEdgeKindPerNode(GraphOf(graphName))
        /\ TerminalHasNoEdge(GraphOf(graphName))
        /\ CompileErrors(GraphOf(graphName)) = {}
        /\ pc # "GraphDefinitionError"

C9_Witness ==
    /\ graphName = "basic"
    /\ pc = "running"
    /\ visited = <<>>

\* C10: in the conditional agent the router runs on the state merged after
\* classify and returns one of the four mapped labels, whatever message and
\* message_type the initial state carries; a RoutingError is unreachable.
C10_RouterTotal ==
    graphName = "conditional" =>
        /\ pc # "RoutingError"
        /\ pc = "running" /\ current = "classify" =>
              /\ visited = <<"classify">>
              /\ state = Merge("conditional", initial, updates[1])
              /\ state["message_type"] = MessageTypeOf(initial["message"])
              /\ route_message(state) \in Handlers
              /\ route_message(state) \in DOMAIN CurrentCond.mapping
              /\ ~UnmappedLabelDue

C10_Witness ==
    /\ graphName = "conditional"
    /\ initial["message_type"] = "bogus"
    /\ initial["message"] = <<"x">>
    /\ pc = "running"
    /\ current = "classify"
    /\ route_message(state) = "unknown"

\* C11: merging a partial update leaves every field the update does not
\* mention unchanged.  In the conditional agent classify changes only
\* message_type (message, response and processed keep their initial values),
\* the handler changes only response and processed (message and message_type
\* keep their values), and the final message is the caller's initial message.
C11_FrameEffect ==
    /\ [](graphName = "conditional" =>
            /\ Len(visited) >= 1 => DOMAIN updates[1] = {"message_type"}
            /\ Len(visited) = 1 =>
                  /\ state["message"] = initial["message"]
                  /\ state["response"] = initial["response"]
                  /\ state["processed"] = initial["processed"]
            /\ Len(visited) >= 2 =>
                  /\ DOMAIN updates[2] = {"response", "processed"}
                  /\ state["message"] = initial["message"]
                  /\ state["message_type"] = updates[1]["message_type"]
            /\ pc = "done" => state["message"] = initial["message"])
    /\ [][updates' # updates =>
            \A f \in DOMAIN state \ DOMAIN updates'[Len(updates')] :
                f \in DOMAIN state' /\ state'[f] = state[f]]_vars

C11_Witness ==
    /\ graphName = "conditional"
    /\ pc = "done"
    /\ visited = <<"classify", "unknown">>
    /\ initial["message"] = <<"x", "H">>
    /\ initial["message_type"] = "bogus"
    /\ state["message"] = <<"x", "H">>
    /\ state["message_type"] = "unknown"
    /\ state["processed"]


\* C12: every run of the basic, conditional or llm graph eventually ends, at
\* the terminal marker unless a node failed, after exactly 3, 2 and 1 node
\* invocations respectively; the terminal marker is never invoked as a node,
\* and every conditional run ends with processed = TRUE and a non-empty
\* response.
C12_Termination ==
    /\ \A g \in {"basic", "conditional"} :
          (graphName = g /\ pc = "running") ~> (graphName = g /\ pc = "done")
    /\ (graphName = "llm" /\ pc = "running")
          ~> (graphName = "llm" /\ pc \in {"done", "NodeExecutionError"})
    /\ [](graphName \in RepoGraphs =>
            /\ pc \in {"running", "done", "NodeExecutionError"}
            /\ pc = "NodeExecutionError" =>
                  /\ graphName = "llm"
                  /\ modelCalls = <<"error">>
            /\ END \notin Range(visited)
            /\ Len(visited) <= (CASE graphName = "basic" -> 3
                                  [] graphName = "conditional" -> 2
                                  [] graphName = "llm" -> 1)
            /\ pc = "done" =>
                  /\ Len(visited) = (CASE graphName = "basic" -> 3
                                       [] graphName = "conditional" -> 2
                                       [] graphName = "llm" -> 1)
                  /\ graphName = "conditional" =>
                        /\ state["processed"] = TRUE
                        /\ state["response"] # <<>>)

C12_Witness ==
    /\ graphName = "conditional"
    /\ pc = "done"
    /\ visited = <<"classify", "command">>
    /\ state["processed"] = TRUE
    /\ Len(state["response"]) > 1


\* kw occurs in text at position i, letter case ignored
MatchesAt(text, kw, i) ==
    /\ i + Len(kw) - 1 <= Len(text)
    /\ \A j \in 1..Len(kw) : LowerChar(text[i + j - 1]) = kw[j]

\* text holds a keyword of the group, letter case ignored
MatchesGroup(text, group) ==
    \E kw \in group : \E i \in 1..Len(text) : MatchesAt(text, kw, i)

\* C13: classify_message sets the type of the first group, in the order
\* greeting, question, command, one of whose keywords occurs in the message
\* with letter case ignored, and unknown when no keyword of any group occurs.
C13_FirstMatch ==
    graphName = "conditional" /\ Len(visited) >= 1 =>
        LET text == initial["message"]
            assigned == updates[1]["message_type"]
        IN  /\ visited[1] = "classify"
            /\ MatchesGroup(text, GreetingKeywords) => assigned = "greeting"
            /\ (~MatchesGroup(text, GreetingKeywords)
                /\ MatchesGroup(text, QuestionKeywords)) => assigned = "question"
            /\ (~MatchesGroup(text, GreetingKeywords)
                /\ ~MatchesGroup(text, QuestionKeywords)
                /\ MatchesGroup(text, CommandKeywords)) => assigned = "command"
            /\ (~MatchesGroup(text, GreetingKeywords)
                /\ ~MatchesGroup(text, QuestionKeywords)
                /\ ~MatchesGroup(text, CommandKeywords)) => assigned = "unknown"

\* An upper-case greeting followed by a question mark is a greeting
C13_Witness ==
    /\ graphName = "conditional"
    /\ visited = <<"classify">>
    /\ initial["message"] = <<"H", "i", "?">>
    /\ MatchesGroup(initial["message"], GreetingKeywords)
    /\ MatchesGroup(initial["message"], QuestionKeywords)
    /\ updates[1]["message_type"] = "greeting"


\* The line is blank: nothing but spaces
IsBlank(line) == \A i \in 1..Len(line) : line[i] = " "

\* The line, spaces around it and letter case ignored, is quit, exit or jong-ryo
IsQuit(line) ==
    \E w \in QuitWords : \E i \in 1..Len(line) :
        /\ MatchesAt(line, w, i)
        /\ \A j \in 1..Len(line) : (j < i \/ j > i + Len(w) - 1) => line[j] = " "

\* The lines read so far that were neither blank nor a quit word
AcceptedInputs == SelectSeq(inputs, LAMBDA line : ~IsBlank(line) /\ ~IsQuit(line))

\* C14: whenever run_conversation prompts or has ended, the history holds
\* exactly two messages per accepted line, the user's message (the line
\* stripped) followed by the agent's reply, in input order; a blank line or a
\* quit word starts no run and leaves the history as it is, a quit word ends
\* the loop, and no step drops or repeats an earlier message.
C14_ConversationHistory ==
    /\ [](loop \in {"prompt", "ended"} =>
            /\ Len(conversation_history) = 2 * Len(AcceptedInputs)
            /\ Len(modelCalls) = Len(AcceptedInputs)
            /\ \A k \in 1..Len(AcceptedInputs) :
                  /\ conversation_history[2 * k - 1]["type"] = "human"
                  /\ conversation_history[2 * k - 1]["content"] = Strip(AcceptedInputs[k])
                  /\ conversation_history[2 * k]["type"] = "ai"
                  /\ conversation_history[2 * k]["content"] = modelCalls[k])
    /\ [][inputs' # inputs =>
            LET line == inputs'[Len(inputs')]
            IN  /\ IsQuit(line) => loop' = "ended"
                /\ IsBlank(line) => loop' = "prompt"
                /\ IsBlank(line) \/ IsQuit(line) =>
                      UNCHANGED <<conversation_history, pc, modelCalls, state, visited>>]_vars
    /\ [][/\ Len(conversation_history') >= Len(conversation_history)
          /\ \A i \in 1..Len(conversation_history) :
                /\ conversation_history'[i]["type"] = conversation_history[i]["type"]
                /\ conversation_history'[i]["content"] = conversation_history[i]["content"]
         ]_vars

\* Three lines, a blank one between two accepted ones, and two replies
C14_Witness ==
    /\ loop = "prompt"
    /\ inputs = << <<"h", "i">>, <<" ", " ">>, <<" ", "h", " ", "i", " ">> >>
    /\ Len(conversation_history) = 4
    /\ conversation_history[3]["content"] = <<"h", " ", "i">>
    /\ modelCalls = <<"r1", "r2">>


\* C15: when the command is run with --no-save, it writes no file and
\* creates no directory, whatever --agent and --format are.
C15_NoSaveWritesNothing ==
    phase # "off" /\ args.no_save => files = <<>> /\ created = <<>>


====
